---- MODULE Spec2Model ----
(***************************************************************************)
(* The central free list of one span class (runtime/mcentral.go): the two  *)
(* span lists, the sweep-generation protocol and the nmalloc / heap_live   *)
(* accounting of cacheSpan, uncacheSpan, freeSpan and grow, run by         *)
(* NProcs threads that interleave at every lock acquisition, every atomic  *)
(* access to a span's sweepgen and every call of the sweeper or the heap.  *)
(***************************************************************************)
EXTENDS Integers, Sequences, FiniteSets

\* ---------------------------------------------------------------- bounds
NProcs == 2         \* threads (each owns one mcache slot for this class)
NSpans == 2         \* spans the heap can hand out at the same time
NElems == 2         \* s.nelems of the span class
ElemSize == 2       \* s.elemsize of the span class
MaxCycles == 1      \* GC cycles (advances of mheap_.sweepgen)

Procs == 1 .. NProcs
Spans == 1 .. NSpans
Slots == 0 .. (NElems - 1)
None == 0

\* spanBytes := uintptr(class_to_allocnpages[...]) * _PageSize, for a class
\* whose objects fill the pages of the span
spanBytes == NElems * ElemSize

VARIABLES
    sweepgen,     \* mheap_.sweepgen
    lock,         \* c.lock: the thread that holds it, or None
    nonempty,     \* c.nonempty, front first
    empty,        \* c.empty, front first
    nmalloc,      \* c.nmalloc
    heap_live,    \* memstats.heap_live
    inuse,        \* spans handed out by mheap_.alloc and not yet freed
    sgen,         \* s.sweepgen
    allocCount,   \* s.allocCount
    freeindex,    \* s.freeindex
    allocBits,    \* s.allocBits, as the set of slots marked allocated
    held,         \* the span cached in each thread's mcache, or None
    pc,           \* where each thread is ("throw": in the throw that ended it)
    sp,           \* the local s of the call a thread is in
    cur,          \* position of a thread's list scan (s = s.next)
    sg,           \* the local sg of cacheSpan
    stale,        \* the local stale of uncacheSpan
    wasempty,     \* the argument wasempty of freeSpan
    fatal,        \* message of the throw that stopped the program, or ""
    retried,      \* history: the current cacheSpan call went through retry
    adj,          \* history: heap_live adjustments of the current cacheSpan call
    arenaReq,     \* history: mheap_.alloc requests of the current cacheSpan call
    origin,       \* history: where the cached span was taken from
    preFree,      \* history: its free slots when cacheSpan picked it
    nmAdded       \* history: what cacheSpan added to nmalloc for it

spanv  == <<inuse, sgen, allocCount, freeindex, allocBits>>
lists  == <<nonempty, empty>>
stats  == <<nmalloc, heap_live>>
locals == <<pc, sp, cur, sg, stale, wasempty>>
hist   == <<retried, adj, arenaReq, origin, preFree, nmAdded>>
vars   == <<sweepgen, lock, lists, stats, spanv, held, locals, fatal, hist>>

\* ------------------------------------------------------------ mSpanList
InList(l, s) == \E i \in 1 .. Len(l) : l[i] = s
Remove(l, s) == SelectSeq(l, LAMBDA x : x # s)
Insert(l, s) == <<s>> \o l
InsertBack(l, s) == Append(l, s)

\* ---------------------------------------------------------------- mspan
\* slots in use: below freeindex every slot is, above it allocBits tells
Allocated(s) == allocBits[s] \cup {i \in Slots : i < freeindex[s]}

\* the first slot at or after fi that bits leaves free, or nelems
FirstFree(bits, fi) ==
    LET free == {i \in Slots : i >= fi /\ i \notin bits}
    IN  IF free = {} THEN NElems
        ELSE CHOOSE i \in free : \A j \in free : i <= j

\* the value s.nextFreeIndex() returns
nextFreeIndex(s) == FirstFree(allocBits[s], freeindex[s])

\* a compare-and-swap that also succeeds on a span somebody has claimed
Cas_claimed(v, old) == v = old \/ v = old + 1

\* atomic.Cas(&s.sweepgen, old, new) succeeds
Cas(v, old) == v = old

\* ------------------------------------------------------------- sweeping
\* mspan.sweep refuses a span it does not own
SweepFatal(s) ==
    IF s \notin inuse \/ sgen[s] # sweepgen - 1
    THEN "mspan.sweep: bad span state" ELSE ""

\* freeSpan, first statement
FreeSpanFatal(s) ==
    IF sgen[s] = sweepgen + 1 \/ sgen[s] = sweepgen + 3
    THEN "freeSpan given cached span" ELSE ""

\* freeSpan with preserve set: the only further check is s.inList()
PreserveFatal(s) ==
    IF FreeSpanFatal(s) # "" THEN FreeSpanFatal(s)
    ELSE IF ~(InList(nonempty, s) \/ InList(empty, s))
         THEN "can't preserve unlinked span" ELSE ""

\* what sweeping leaves in the span: the marked slots stay allocated
SweepFields(s, marks, fi) ==
    /\ allocBits' = [allocBits EXCEPT ![s] = marks]
    /\ allocCount' = [allocCount EXCEPT ![s] = Cardinality(marks)]
    /\ freeindex' = [freeindex EXCEPT ![s] = fi]

\* a sweep that forgets preserve and gives a span swept to zero to the heap
SweepTrue_freed(s, marks, fi) ==
    /\ fatal' = ""
    /\ SweepFields(s, marks, fi)
    /\ sgen' = [sgen EXCEPT ![s] = sweepgen]
    /\ inuse' = IF marks = {} THEN inuse \ {s} ELSE inuse

\* a sweep that leaves the span unswept, to be claimed again
SweepTrue_unswept(s, marks, fi) ==
    /\ fatal' = ""
    /\ SweepFields(s, marks, fi)
    /\ sgen' = [sgen EXCEPT ![s] = sweepgen - 2]
    /\ UNCHANGED inuse

\* s.sweep(true): the sweep, then freeSpan(s, true, wasempty) when slots were
\* freed and the plain store of sweepgen when none was; either way the span
\* ends with sweepgen = mheap_.sweepgen. fi is the freeindex left behind.
SweepTrue(s, marks, fi) ==
    LET nfreed == allocCount[s] - Cardinality(marks)
        msg == IF SweepFatal(s) # "" THEN SweepFatal(s)
               ELSE IF nfreed > 0 THEN PreserveFatal(s) ELSE ""
    IN  /\ fatal' = msg
        /\ IF msg = ""
           THEN /\ SweepFields(s, marks, fi)
                /\ sgen' = [sgen EXCEPT ![s] = sweepgen]
           ELSE UNCHANGED <<allocBits, allocCount, freeindex, sgen>>
        /\ UNCHANGED inuse

\* ------------------------------------------------------------ cacheSpan
\* the move to c.empty without its c.nonempty.remove(s)
MoveToEmpty_keep(s) ==
    /\ nonempty' = nonempty
    /\ empty' = InsertBack(empty, s)
    /\ lock' = None

\* the move to c.empty without its unlock(&c.lock)
MoveToEmpty_locked(s) ==
    /\ nonempty' = Remove(nonempty, s)
    /\ empty' = InsertBack(empty, s)
    /\ lock' = lock

\* c.nonempty.remove(s); c.empty.insertBack(s); unlock(&c.lock)
MoveToEmpty(s) ==
    /\ nonempty' = Remove(nonempty, s)
    /\ empty' = InsertBack(empty, s)
    /\ lock' = None

\* c.empty.remove(s); c.empty.insertBack(s); unlock(&c.lock)
MoveToBack(s) ==
    /\ empty' = InsertBack(Remove(empty, s), s)
    /\ nonempty' = nonempty
    /\ lock' = None

\* lock(&c.lock); sg := mheap_.sweepgen; retry:
CacheSpanEnter(p) ==
    /\ fatal = ""
    /\ pc[p] = "idle"
    /\ held[p] = None
    /\ lock = None
    /\ lock' = p
    /\ pc' = [pc EXCEPT ![p] = "cs_ne"]
    /\ cur' = [cur EXCEPT ![p] = 1]
    /\ sg' = [sg EXCEPT ![p] = sweepgen]
    /\ UNCHANGED <<sweepgen, lists, stats, spanv, held, sp, stale, wasempty, fatal, hist>>

\* one iteration of the loop over c.nonempty
ScanNonempty(p) ==
    /\ fatal = ""
    /\ pc[p] = "cs_ne"
    /\ IF cur[p] > Len(nonempty)
       THEN \* the loop ends: go on with c.empty.first
            /\ cur' = [cur EXCEPT ![p] = 1]
            /\ pc' = [pc EXCEPT ![p] = "cs_e"]
            /\ UNCHANGED <<lock, lists, sgen, sp, origin, preFree>>
       ELSE LET s == nonempty[cur[p]] IN
            IF Cas(sgen[s], sg[p] - 2)
            THEN \* claimed for sweeping
                 /\ sgen' = [sgen EXCEPT ![s] = sg[p] - 1]
                 /\ MoveToEmpty(s)
                 /\ sp' = [sp EXCEPT ![p] = s]
                 /\ cur' = [cur EXCEPT ![p] = 0]
                 /\ pc' = [pc EXCEPT ![p] = "cs_sweep_ne"]
                 /\ origin' = [origin EXCEPT ![p] = "nonempty"]
                 /\ preFree' = [preFree EXCEPT ![p] = NElems - allocCount[s]]
            ELSE IF sgen[s] = sg[p] - 1
            THEN \* being swept by somebody else: skip
                 /\ cur' = [cur EXCEPT ![p] = cur[p] + 1]
                 /\ UNCHANGED <<lock, lists, sgen, sp, pc, origin, preFree>>
            ELSE \* swept, with a free object
                 /\ MoveToEmpty(s)
                 /\ sp' = [sp EXCEPT ![p] = s]
                 /\ cur' = [cur EXCEPT ![p] = 0]
                 /\ pc' = [pc EXCEPT ![p] = "havespan"]
                 /\ origin' = [origin EXCEPT ![p] = "nonempty"]
                 /\ preFree' = [preFree EXCEPT ![p] = NElems - allocCount[s]]
                 /\ UNCHANGED sgen
    /\ UNCHANGED <<sweepgen, stats, inuse, allocCount, freeindex, allocBits, held,
                   sg, stale, wasempty, fatal, retried, adj, arenaReq, nmAdded>>

\* s.sweep(true) of the span claimed in c.nonempty; goto havespan
SweepNonempty(p) ==
    /\ fatal = ""
    /\ pc[p] = "cs_sweep_ne"
    /\ \E marks \in SUBSET Allocated(sp[p]) : SweepTrue(sp[p], marks, 0)
    /\ pc' = [pc EXCEPT ![p] = IF fatal' = "" THEN "havespan" ELSE "throw"]
    /\ UNCHANGED <<sweepgen, lock, lists, stats, held, sp, cur, sg, stale, wasempty, hist>>

\* one iteration of the loop over c.empty
ScanEmpty(p) ==
    /\ fatal = ""
    /\ pc[p] = "cs_e"
    /\ IF cur[p] > Len(empty)
       THEN \* the loop ends: unlock(&c.lock) and grow
            /\ lock' = None
            /\ cur' = [cur EXCEPT ![p] = 0]
            /\ pc' = [pc EXCEPT ![p] = "cs_grow"]
            /\ UNCHANGED <<lists, sgen, sp, origin, preFree>>
       ELSE LET s == empty[cur[p]] IN
            IF Cas(sgen[s], sg[p] - 2)
            THEN \* claimed: swept spans are at the end of the list
                 /\ sgen' = [sgen EXCEPT ![s] = sg[p] - 1]
                 /\ MoveToBack(s)
                 /\ sp' = [sp EXCEPT ![p] = s]
                 /\ cur' = [cur EXCEPT ![p] = 0]
                 /\ pc' = [pc EXCEPT ![p] = "cs_sweep_e"]
                 /\ origin' = [origin EXCEPT ![p] = "empty"]
                 /\ preFree' = [preFree EXCEPT ![p] = NElems - allocCount[s]]
            ELSE IF sgen[s] = sg[p] - 1
            THEN \* being swept by somebody else: skip
                 /\ cur' = [cur EXCEPT ![p] = cur[p] + 1]
                 /\ UNCHANGED <<lock, lists, sgen, sp, pc, origin, preFree>>
            ELSE \* already swept empty span: break, unlock(&c.lock) and grow
                 /\ lock' = None
                 /\ cur' = [cur EXCEPT ![p] = 0]
                 /\ pc' = [pc EXCEPT ![p] = "cs_grow"]
                 /\ UNCHANGED <<lists, sgen, sp, origin, preFree>>
    /\ UNCHANGED <<sweepgen, stats, inuse, allocCount, freeindex, allocBits, held,
                   sg, stale, wasempty, fatal, retried, adj, arenaReq, nmAdded>>

\* a swept span that is still full is returned all the same
AfterSweepEmpty_return(p, freeIndex) ==
    /\ pc' = [pc EXCEPT ![p] = IF freeIndex # NElems THEN "havespan" ELSE "cs_ret"]
    /\ UNCHANGED <<sp, origin, preFree>>

\* if freeIndex != s.nelems { goto havespan }; lock(&c.lock); goto retry
AfterSweepEmpty(p, freeIndex) ==
    IF freeIndex # NElems
    THEN /\ pc' = [pc EXCEPT ![p] = "havespan"]
         /\ UNCHANGED <<sp, origin, preFree>>
    ELSE /\ pc' = [pc EXCEPT ![p] = "cs_relock"]
         /\ sp' = [sp EXCEPT ![p] = None]
         /\ origin' = [origin EXCEPT ![p] = "none"]
         /\ preFree' = [preFree EXCEPT ![p] = 0]

\* s.sweep(true) of the span claimed in c.empty, freeIndex := s.nextFreeIndex();
\* a free slot: s.freeindex = freeIndex, goto havespan; none: back to the lock
SweepEmpty(p) ==
    /\ fatal = ""
    /\ pc[p] = "cs_sweep_e"
    /\ \E marks \in SUBSET Allocated(sp[p]) :
         /\ SweepTrue(sp[p], marks, FirstFree(marks, 0))
         /\ IF fatal' # ""
            THEN /\ pc' = [pc EXCEPT ![p] = "throw"]
                 /\ UNCHANGED <<sp, origin, preFree>>
            ELSE AfterSweepEmpty(p, FirstFree(marks, 0))
    /\ UNCHANGED <<sweepgen, lock, lists, stats, held, cur, sg, stale, wasempty,
                   retried, adj, arenaReq, nmAdded>>

\* a retry that has already counted the swept span in heap_live
CacheSpanRetry_counted(p) ==
    /\ fatal = ""
    /\ pc[p] = "cs_relock"
    /\ lock = None
    /\ lock' = p
    /\ pc' = [pc EXCEPT ![p] = "cs_ne"]
    /\ cur' = [cur EXCEPT ![p] = 1]
    /\ retried' = [retried EXCEPT ![p] = TRUE]
    /\ heap_live' = heap_live + spanBytes
    /\ adj' = [adj EXCEPT ![p] = adj[p] + 1]
    /\ UNCHANGED <<sweepgen, lists, nmalloc, spanv, held, sp, sg, stale, wasempty, fatal,
                   arenaReq, origin, preFree, nmAdded>>

\* the span is still empty after sweep: lock(&c.lock); goto retry
CacheSpanRetry(p) ==
    /\ fatal = ""
    /\ pc[p] = "cs_relock"
    /\ lock = None
    /\ lock' = p
    /\ pc' = [pc EXCEPT ![p] = "cs_ne"]
    /\ cur' = [cur EXCEPT ![p] = 1]
    /\ retried' = [retried EXCEPT ![p] = TRUE]
    /\ UNCHANGED <<sweepgen, lists, stats, spanv, held, sp, sg, stale, wasempty, fatal,
                   adj, arenaReq, origin, preFree, nmAdded>>

\* mheap_.alloc hands out a span: in use, swept, no slot allocated
FreshSpan(s) ==
    /\ inuse' = inuse \cup {s}
    /\ sgen' = [sgen EXCEPT ![s] = sweepgen]
    /\ allocCount' = [allocCount EXCEPT ![s] = 0]
    /\ freeindex' = [freeindex EXCEPT ![s] = 0]
    /\ allocBits' = [allocBits EXCEPT ![s] = {}]

\* s = c.grow() succeeds (c.lock is not held)
GrowOk(p) ==
    /\ fatal = ""
    /\ pc[p] = "cs_grow"
    /\ inuse # Spans
    /\ LET s == CHOOSE x \in Spans \ inuse : \A y \in Spans \ inuse : x <= y IN
         /\ FreshSpan(s)
         /\ sp' = [sp EXCEPT ![p] = s]
    /\ pc' = [pc EXCEPT ![p] = "cs_growlock"]
    /\ arenaReq' = [arenaReq EXCEPT ![p] = arenaReq[p] + 1]
    /\ origin' = [origin EXCEPT ![p] = "grow"]
    /\ preFree' = [preFree EXCEPT ![p] = NElems]
    /\ UNCHANGED <<sweepgen, lock, lists, stats, held, cur, sg, stale, wasempty, fatal,
                   retried, adj, nmAdded>>

\* a cacheSpan that asks the heap a second time before it gives up
GrowFail_again(p) ==
    /\ fatal = ""
    /\ pc[p] = "cs_grow"
    /\ pc' = [pc EXCEPT ![p] = IF arenaReq[p] = 0 THEN "cs_grow" ELSE "cs_ret"]
    /\ sp' = [sp EXCEPT ![p] = None]
    /\ arenaReq' = [arenaReq EXCEPT ![p] = arenaReq[p] + 1]
    /\ UNCHANGED <<sweepgen, lock, lists, stats, spanv, held, cur, sg, stale, wasempty,
                   fatal, retried, adj, origin, preFree, nmAdded>>

\* s = c.grow() fails: mheap_.alloc returned nil, cacheSpan returns nil
GrowFail(p) ==
    /\ fatal = ""
    /\ pc[p] = "cs_grow"
    /\ pc' = [pc EXCEPT ![p] = "cs_ret"]
    /\ sp' = [sp EXCEPT ![p] = None]
    /\ arenaReq' = [arenaReq EXCEPT ![p] = arenaReq[p] + 1]
    /\ UNCHANGED <<sweepgen, lock, lists, stats, spanv, held, cur, sg, stale, wasempty,
                   fatal, retried, adj, origin, preFree, nmAdded>>

\* a grow whose span is queued in c.nonempty, where other calls take spans
GrowInsert_nonempty(p) ==
    /\ fatal = ""
    /\ pc[p] = "cs_growlock"
    /\ lock = None
    /\ nonempty' = InsertBack(nonempty, sp[p])
    /\ pc' = [pc EXCEPT ![p] = "havespan"]
    /\ UNCHANGED <<sweepgen, lock, empty, stats, spanv, held, sp, cur, sg, stale,
                   wasempty, fatal, hist>>

\* lock(&c.lock); c.empty.insertBack(s); unlock(&c.lock)
GrowInsert(p) ==
    /\ fatal = ""
    /\ pc[p] = "cs_growlock"
    /\ lock = None
    /\ empty' = InsertBack(empty, sp[p])
    /\ pc' = [pc EXCEPT ![p] = "havespan"]
    /\ UNCHANGED <<sweepgen, lock, nonempty, stats, spanv, held, sp, cur, sg, stale,
                   wasempty, fatal, hist>>

\* n == 0 || s.freeindex == s.nelems || uintptr(s.allocCount) == s.nelems
NoFreeObjects(s) ==
    \/ NElems - allocCount[s] = 0
    \/ freeindex[s] = NElems
    \/ allocCount[s] = NElems

\* int64(spanBytes) - int64(usedBytes), usedBytes := allocCount * elemsize
LiveAdd(s) == spanBytes - allocCount[s] * ElemSize

\* havespan: the check, then the two counters; return s
HaveSpan(p) ==
    /\ fatal = ""
    /\ pc[p] = "havespan"
    /\ LET s == sp[p]
           n == NElems - allocCount[s]
       IN  IF NoFreeObjects(s)
           THEN /\ fatal' = "span has no free objects"
                /\ pc' = [pc EXCEPT ![p] = "throw"]
                /\ UNCHANGED <<stats, adj, nmAdded>>
           ELSE /\ nmalloc' = nmalloc + n
                /\ heap_live' = heap_live + LiveAdd(s)
                /\ pc' = [pc EXCEPT ![p] = "cs_ret"]
                /\ adj' = [adj EXCEPT ![p] = adj[p] + 1]
                /\ nmAdded' = [nmAdded EXCEPT ![p] = n]
                /\ UNCHANGED fatal
    /\ UNCHANGED <<sweepgen, lock, lists, spanv, held, sp, cur, sg, stale, wasempty,
                   retried, arenaReq, origin, preFree>>

\* ---------------------------------------------------------------- mcache
\* the caller of cacheSpan takes what it returned: a span becomes the cached
\* span of the thread and is tagged sweepgen+3, nil is passed on
Refill(p) ==
    /\ fatal = ""
    /\ pc[p] = "cs_ret"
    /\ IF sp[p] = None
       THEN UNCHANGED <<sgen, held>>
       ELSE /\ held' = [held EXCEPT ![p] = sp[p]]
            /\ sgen' = [sgen EXCEPT ![sp[p]] = sweepgen + 3]
    /\ pc' = [pc EXCEPT ![p] = "idle"]
    /\ sp' = [sp EXCEPT ![p] = None]
    /\ sg' = [sg EXCEPT ![p] = 0]
    /\ retried' = [retried EXCEPT ![p] = FALSE]
    /\ adj' = [adj EXCEPT ![p] = 0]
    /\ arenaReq' = [arenaReq EXCEPT ![p] = 0]
    /\ UNCHANGED <<sweepgen, lock, lists, stats, inuse, allocCount, freeindex, allocBits,
                   cur, stale, wasempty, fatal, origin, preFree, nmAdded>>

\* the thread allocates one object from its cached span
Alloc(p) ==
    /\ fatal = ""
    /\ pc[p] = "idle"
    /\ held[p] # None
    /\ sgen[held[p]] = sweepgen + 3
    /\ nextFreeIndex(held[p]) # NElems
    /\ freeindex' = [freeindex EXCEPT ![held[p]] = nextFreeIndex(held[p]) + 1]
    /\ allocCount' = [allocCount EXCEPT ![held[p]] = allocCount[held[p]] + 1]
    /\ origin' = [origin EXCEPT ![p] = "none"]
    /\ preFree' = [preFree EXCEPT ![p] = 0]
    /\ nmAdded' = [nmAdded EXCEPT ![p] = 0]
    /\ UNCHANGED <<sweepgen, lock, lists, stats, inuse, sgen, allocBits, held, locals,
                   fatal, retried, adj, arenaReq>>

\* ---------------------------------------------------------- uncacheSpan
\* a release that stamps the stale span swept although nobody has swept it
UncacheStore_swept(isStale) == sweepgen

\* a release that leaves the stale span unswept, for anybody to claim
UncacheStore_unswept(isStale) == IF isStale THEN sweepgen - 2 ELSE sweepgen

\* atomic.Store(&s.sweepgen, sg-1) if stale, atomic.Store(&s.sweepgen, sg) if not
UncacheStore(isStale) == IF isStale THEN sweepgen - 1 ELSE sweepgen

\* a release that takes a full span for one with a free slot
Unallocated_one(s) == IF allocCount[s] = NElems THEN 1 ELSE NElems - allocCount[s]

\* a release that takes the whole span back from nmalloc
Unallocated_all(s) == NElems

\* n := int(s.nelems) - int(s.allocCount)
Unallocated(s) == NElems - allocCount[s]

\* up to the lock: the check, the store to s.sweepgen, the nmalloc correction
UncacheSpanEnter(p) ==
    /\ fatal = ""
    /\ pc[p] = "idle"
    /\ held[p] # None
    /\ LET s == held[p]
           isStale == sgen[s] = sweepgen + 1
           n == Unallocated(s)
       IN  IF allocCount[s] = 0
           THEN /\ fatal' = "uncaching span but s.allocCount == 0"
                /\ pc' = [pc EXCEPT ![p] = "throw"]
                /\ UNCHANGED <<sgen, nmalloc, held, sp, stale>>
           ELSE /\ sgen' = [sgen EXCEPT ![s] = UncacheStore(isStale)]
                /\ nmalloc' = IF n > 0 THEN nmalloc - n ELSE nmalloc
                /\ held' = [held EXCEPT ![p] = None]
                /\ sp' = [sp EXCEPT ![p] = IF n > 0 \/ isStale THEN s ELSE None]
                /\ stale' = [stale EXCEPT ![p] = isStale]
                /\ pc' = [pc EXCEPT ![p] = IF n > 0 THEN "uc_lock"
                                           ELSE IF isStale THEN "sweep" ELSE "idle"]
                /\ UNCHANGED fatal
    /\ UNCHANGED <<sweepgen, lock, lists, heap_live, inuse, allocCount, freeindex,
                   allocBits, cur, sg, wasempty, hist>>

\* uncacheSpan without its c.empty.remove(s)
UncacheMove_keep(s) ==
    /\ empty' = empty
    /\ nonempty' = Insert(nonempty, s)

\* uncacheSpan leaving the span where it is
UncacheMove_stay(s) ==
    /\ empty' = empty
    /\ nonempty' = nonempty

\* c.empty.remove(s); c.nonempty.insert(s)
UncacheMove(s) ==
    /\ empty' = Remove(empty, s)
    /\ nonempty' = Insert(nonempty, s)

\* the correction made for a stale span as well
LiveSub_always(n, isStale) == n * ElemSize

\* the correction of heap_live: -int64(n) * int64(s.elemsize) if !stale
LiveSub(n, isStale) == IF ~isStale THEN n * ElemSize ELSE 0

\* n > 0: under the lock the span goes from c.empty to the front of c.nonempty,
\* and heap_live is corrected unless the span is stale
UncacheSpanLocked(p) ==
    /\ fatal = ""
    /\ pc[p] = "uc_lock"
    /\ lock = None
    /\ UncacheMove(sp[p])
    /\ heap_live' = heap_live - LiveSub(NElems - allocCount[sp[p]], stale[p])
    /\ pc' = [pc EXCEPT ![p] = IF stale[p] THEN "sweep" ELSE "idle"]
    /\ sp' = [sp EXCEPT ![p] = IF stale[p] THEN sp[p] ELSE None]
    /\ origin' = [origin EXCEPT ![p] = "none"]
    /\ preFree' = [preFree EXCEPT ![p] = 0]
    /\ nmAdded' = [nmAdded EXCEPT ![p] = 0]
    /\ UNCHANGED <<sweepgen, lock, nmalloc, spanv, held, cur, sg, stale, wasempty, fatal,
                   retried, adj, arenaReq>>

\* ------------------------------------------------- the background sweeper
\* a sweeper claims an unswept span: Cas(&s.sweepgen, sg-2, sg-1)
Sweepone(p) ==
    /\ fatal = ""
    /\ pc[p] = "idle"
    /\ \E s \in inuse :
         /\ Cas(sgen[s], sweepgen - 2)
         /\ sgen' = [sgen EXCEPT ![s] = sweepgen - 1]
         /\ sp' = [sp EXCEPT ![p] = s]
    /\ pc' = [pc EXCEPT ![p] = "sweep"]
    /\ UNCHANGED <<sweepgen, lock, lists, stats, inuse, allocCount, freeindex, allocBits,
                   held, cur, sg, stale, wasempty, fatal, hist>>

\* a sweep that stamps the span before freeSpan has taken the lock
SweptStamp_early(s, nfreed) == sweepgen

\* s.sweepgen when s.sweep(false) reaches freeSpan or returns without it: the
\* store is made there if nothing was freed, else delayed until freeSpan has
\* the lock and has moved the span
SweptStamp(s, nfreed) == IF nfreed = 0 THEN sweepgen ELSE sgen[s]

\* s.sweep(false), up to its call of freeSpan(s, false, wasempty): nothing
\* freed, the span is stamped swept; something freed, freeSpan is entered
SweepFalse(p) ==
    /\ fatal = ""
    /\ pc[p] = "sweep"
    /\ \E marks \in SUBSET Allocated(sp[p]) :
         LET s == sp[p]
             nfreed == allocCount[s] - Cardinality(marks)
             msg == IF SweepFatal(s) # "" THEN SweepFatal(s)
                    ELSE IF nfreed > 0 THEN FreeSpanFatal(s) ELSE ""
         IN  /\ fatal' = msg
             /\ IF msg # ""
                THEN /\ pc' = [pc EXCEPT ![p] = "throw"]
                     /\ UNCHANGED <<sgen, allocBits, allocCount, freeindex, sp, wasempty,
                                    stale>>
                ELSE /\ SweepFields(s, marks, 0)
                     /\ stale' = [stale EXCEPT ![p] = FALSE]
                     /\ sgen' = [sgen EXCEPT ![s] = SweptStamp(s, nfreed)]
                     /\ IF nfreed = 0
                        THEN /\ pc' = [pc EXCEPT ![p] = "idle"]
                             /\ sp' = [sp EXCEPT ![p] = None]
                             /\ UNCHANGED wasempty
                        ELSE /\ wasempty' = [wasempty EXCEPT ![p] = nextFreeIndex(s) = NElems]
                             /\ pc' = [pc EXCEPT ![p] = "fs_lock"]
                             /\ UNCHANGED sp
    /\ UNCHANGED <<sweepgen, lock, lists, stats, inuse, held, cur, sg, hist>>

\* ------------------------------------------------------------- freeSpan
\* freeSpan without its c.empty.remove(s)
FreeSpanEmpty_keep(s, we) == empty

\* if wasempty { c.empty.remove(s); c.nonempty.insert(s) }: c.empty after it
FreeSpanEmpty(s, we) == IF we THEN Remove(empty, s) ELSE empty

\* and c.nonempty after it
FreeSpanNonempty(s, we) == IF we THEN Insert(nonempty, s) ELSE nonempty

\* preserve = false, from lock(&c.lock) to the unlock before either return
FreeSpanLocked(p) ==
    /\ fatal = ""
    /\ pc[p] = "fs_lock"
    /\ lock = None
    /\ LET s == sp[p]
           em == FreeSpanEmpty(s, wasempty[p])
           ne == FreeSpanNonempty(s, wasempty[p])
       IN  /\ empty' = em
           /\ sgen' = [sgen EXCEPT ![s] = sweepgen]
           /\ IF allocCount[s] # 0
              THEN /\ nonempty' = ne
                   /\ pc' = [pc EXCEPT ![p] = "idle"]
                   /\ sp' = [sp EXCEPT ![p] = None]
              ELSE /\ nonempty' = Remove(ne, s)
                   /\ pc' = [pc EXCEPT ![p] = "fs_heapfree"]
                   /\ UNCHANGED sp
    /\ wasempty' = [wasempty EXCEPT ![p] = FALSE]
    /\ UNCHANGED <<sweepgen, lock, stats, inuse, allocCount, freeindex, allocBits, held,
                   cur, sg, stale, fatal, hist>>

\* mheap_.freeSpan(s); return true
HeapFreeSpan(p) ==
    /\ fatal = ""
    /\ pc[p] = "fs_heapfree"
    /\ LET s == sp[p] IN
         /\ inuse' = inuse \ {s}
         /\ sgen' = [sgen EXCEPT ![s] = 0]
         /\ allocCount' = [allocCount EXCEPT ![s] = 0]
         /\ freeindex' = [freeindex EXCEPT ![s] = 0]
         /\ allocBits' = [allocBits EXCEPT ![s] = {}]
    /\ pc' = [pc EXCEPT ![p] = "idle"]
    /\ sp' = [sp EXCEPT ![p] = None]
    /\ UNCHANGED <<sweepgen, lock, lists, stats, held, cur, sg, stale, wasempty, fatal, hist>>

\* a freeSpan that stamps the span before it looks whether it is cached
FreeSpanCached_stamped(p, s) ==
    /\ fatal = ""
    /\ pc[p] = "idle"
    /\ s \in inuse
    /\ FreeSpanFatal(s) # ""
    /\ sgen' = [sgen EXCEPT ![s] = sweepgen]
    /\ fatal' = FreeSpanFatal(s)
    /\ pc' = [pc EXCEPT ![p] = "throw"]
    /\ UNCHANGED <<sweepgen, lock, lists, stats, inuse, allocCount, freeindex, allocBits,
                   held, sp, cur, sg, stale, wasempty, hist>>

\* freeSpan(s, preserve, wasempty) called, against its contract, for a span
\* that a thread cache holds: the first statement throws, whatever the flags
FreeSpanCached(p, s) ==
    /\ fatal = ""
    /\ pc[p] = "idle"
    /\ s \in inuse
    /\ FreeSpanFatal(s) # ""
    /\ fatal' = FreeSpanFatal(s)
    /\ pc' = [pc EXCEPT ![p] = "throw"]
    /\ UNCHANGED <<sweepgen, lock, lists, stats, spanv, held, sp, cur, sg, stale,
                   wasempty, hist>>

\* ------------------------------------------------------------ the cycle
RECURSIVE SumUsed(_)
SumUsed(S) ==
    IF S = {} THEN 0
    ELSE LET s == CHOOSE x \in S : TRUE
         IN  allocCount[s] * ElemSize + SumUsed(S \ {s})

\* a new cycle starts with the world stopped and the last one's sweep done:
\* mheap_.sweepgen += 2, and heap_live is computed anew
GCAdvance ==
    /\ fatal = ""
    /\ sweepgen < 2 * MaxCycles
    /\ \A p \in Procs : pc[p] = "idle"
    /\ \A s \in inuse : sgen[s] = sweepgen \/ sgen[s] = sweepgen + 3
    /\ sweepgen' = sweepgen + 2
    /\ heap_live' = SumUsed(inuse)
    /\ origin' = [p \in Procs |-> "none"]
    /\ preFree' = [p \in Procs |-> 0]
    /\ nmAdded' = [p \in Procs |-> 0]
    /\ UNCHANGED <<lock, lists, nmalloc, spanv, held, locals, fatal, retried, adj, arenaReq>>

Init ==
    /\ sweepgen = 0
    /\ lock = None
    /\ nonempty = << >>
    /\ empty = << >>
    /\ nmalloc = 0
    /\ heap_live = 0
    /\ inuse = {}
    /\ sgen = [s \in Spans |-> 0]
    /\ allocCount = [s \in Spans |-> 0]
    /\ freeindex = [s \in Spans |-> 0]
    /\ allocBits = [s \in Spans |-> {}]
    /\ held = [p \in Procs |-> None]
    /\ pc = [p \in Procs |-> "idle"]
    /\ sp = [p \in Procs |-> None]
    /\ cur = [p \in Procs |-> 0]
    /\ sg = [p \in Procs |-> 0]
    /\ stale = [p \in Procs |-> FALSE]
    /\ wasempty = [p \in Procs |-> FALSE]
    /\ fatal = ""
    /\ retried = [p \in Procs |-> FALSE]
    /\ adj = [p \in Procs |-> 0]
    /\ arenaReq = [p \in Procs |-> 0]
    /\ origin = [p \in Procs |-> "none"]
    /\ preFree = [p \in Procs |-> 0]
    /\ nmAdded = [p \in Procs |-> 0]

Next ==
    \/ \E p \in Procs : CacheSpanEnter(p)
    \/ \E p \in Procs : ScanNonempty(p)
    \/ \E p \in Procs : SweepNonempty(p)
    \/ \E p \in Procs : ScanEmpty(p)
    \/ \E p \in Procs : SweepEmpty(p)
    \/ \E p \in Procs : CacheSpanRetry(p)
    \/ \E p \in Procs : GrowOk(p)
    \/ \E p \in Procs : GrowFail(p)
    \/ \E p \in Procs : GrowInsert(p)
    \/ \E p \in Procs : HaveSpan(p)
    \/ \E p \in Procs : Refill(p)
    \/ \E p \in Procs : Alloc(p)
    \/ \E p \in Procs : UncacheSpanEnter(p)
    \/ \E p \in Procs : UncacheSpanLocked(p)
    \/ \E p \in Procs : Sweepone(p)
    \/ \E p \in Procs : SweepFalse(p)
    \/ \E p \in Procs : FreeSpanLocked(p)
    \/ \E p \in Procs : HeapFreeSpan(p)
    \/ GCAdvance

Spec == Init /\ [][Next]_vars

\* what the scheduler, the sweeper, the heap and a fair lock grant a thread
\* inside cacheSpan: a step that waits for nothing is taken, and so is a
\* lock(&c.lock) that finds the lock free again and again
CacheSpanFair(p) ==
    /\ WF_vars(ScanNonempty(p))
    /\ WF_vars(SweepNonempty(p))
    /\ WF_vars(ScanEmpty(p))
    /\ WF_vars(SweepEmpty(p))
    /\ WF_vars(GrowOk(p) \/ GrowFail(p))
    /\ WF_vars(HaveSpan(p))
    /\ SF_vars(CacheSpanRetry(p))
    /\ SF_vars(GrowInsert(p))

SpecFair == Spec /\ \A p \in Procs : CacheSpanFair(p)

\* the same threads with a sweeper that may break the contract of freeSpan
NextMisuse ==
    \/ Next
    \/ \E p \in Procs, s \in Spans : FreeSpanCached(p, s)

SpecMisuse == Init /\ [][NextMisuse]_vars

\* ================================================================ claims
\* a span is leased from the return of cacheSpan until uncacheSpan is called
Leased(s) == \E p \in Procs : held[p] = s \/ (pc[p] = "cs_ret" /\ sp[p] = s)

Count(l, s) == Cardinality({i \in 1 .. Len(l) : l[i] = s})

\* between grow and its insertBack, or between freeSpan's unlink and the heap
InTransit(s) == \E p \in Procs : sp[p] = s /\ pc[p] \in {"cs_growlock", "fs_heapfree"}

\* C1 as stated: every span not returned to the heap is in exactly one of the
\* nonempty list, the empty list and a thread cache.
C1_ExactlyOnePlace ==
    \A s \in inuse :
        LET a == InList(nonempty, s)
            b == InList(empty, s)
            c == Leased(s)
        IN  (a /\ ~b /\ ~c) \/ (~a /\ b /\ ~c) \/ (~a /\ ~b /\ c)

\* C1 amended: a span is linked at most once and never in both lists; a span
\* returned to the heap is linked nowhere and leased to nobody; a span in use
\* is unlinked only between grow and its insertion and between freeSpan's
\* unlink and the heap; a leased span is linked in the empty list.
C1_Membership ==
    \A s \in Spans :
        /\ Count(nonempty, s) + Count(empty, s) <= 1
        /\ s \notin inuse => Count(nonempty, s) + Count(empty, s) = 0 /\ ~Leased(s)
        /\ s \in inuse /\ Count(nonempty, s) + Count(empty, s) = 0 => InTransit(s)
        /\ Leased(s) => InList(empty, s)

\* a leased span in the empty list beside an unleased span in the nonempty list
C1_Witness ==
    \E s, u \in inuse :
        /\ Leased(s) /\ InList(empty, s)
        /\ ~Leased(u) /\ InList(nonempty, u)

\* ------------------------------------------------------------------- C2
\* C2: a span cacheSpan returns has allocCount < nelems when it is returned,
\* whichever of the three paths found it.
C2_FreeSlot ==
    \A p \in Procs :
        pc[p] = "cs_ret" /\ sp[p] # None =>
            /\ sp[p] \in inuse
            /\ allocCount[sp[p]] < NElems
            /\ nextFreeIndex(sp[p]) # NElems

\* a span is returned that was found in the empty list, after a retry
C2_Witness ==
    \E p \in Procs :
        pc[p] = "cs_ret" /\ sp[p] # None /\ origin[p] = "empty" /\ retried[p]

\* ------------------------------------------------------------------- C3
\* the span a thread has got from cacheSpan and not yet given to uncacheSpan
Lease(p) == IF pc[p] \in {"havespan", "cs_ret"} THEN sp[p] ELSE held[p]

\* C3: no span is leased to two threads at once, neither returned by two
\* cacheSpan calls nor returned to one thread while another still caches it.
C3_ExclusiveLease ==
    \A p, q \in Procs : p # q /\ Lease(p) # None => Lease(p) # Lease(q)

\* both threads hold a lease at the same time, one of them just returned
C3_Witness ==
    \E p, q \in Procs :
        /\ p # q /\ held[p] # None
        /\ pc[q] = "cs_ret" /\ sp[q] # None
        /\ origin[q] # "grow"

\* ------------------------------------------------------------------- C4
\* the threads that have claimed span s for sweeping and not finished with it
Sweepers(s) ==
    {p \in Procs : sp[p] = s /\ pc[p] \in {"cs_sweep_ne", "cs_sweep_e", "sweep", "fs_lock"}}

\* the span a scanning thread is looking at
ScanAt(p) ==
    IF pc[p] = "cs_ne" /\ cur[p] <= Len(nonempty) THEN nonempty[cur[p]]
    ELSE IF pc[p] = "cs_e" /\ cur[p] <= Len(empty) THEN empty[cur[p]]
    ELSE None

\* C4, states: a span has at most one sweeper, and while it has one its
\* sweepgen is the claimed value sg-1 (or already stamped by freeSpan).
C4_OneSweeper ==
    \A s \in Spans :
        /\ Cardinality(Sweepers(s)) <= 1
        /\ (\E p \in Sweepers(s) : pc[p] # "fs_lock") => sgen[s] = sweepgen - 1

\* C4, steps: a step claims a span (sweepgen sg-2 -> sg-1) for exactly one
\* thread, which becomes its sweeper; a scanning thread that finds the span
\* claimed moves on to the next span, keeping the lock; and within a cycle no
\* span goes back to sg-2, so none is claimed and swept twice.
C4_ClaimStep ==
    \A s \in Spans :
        /\ (sgen[s] = sweepgen - 2 /\ sgen'[s] = sweepgen - 1 /\ s \in inuse) =>
              Cardinality(Sweepers(s)') = 1 /\ Sweepers(s) = {}
        /\ \A p \in Procs :
              (ScanAt(p) = s /\ sgen[s] = sg[p] - 1 /\ <<pc[p], cur[p]>> # <<pc'[p], cur'[p]>>) =>
                  /\ pc'[p] = pc[p] /\ cur'[p] = cur[p] + 1
                  /\ lock' = p /\ sgen'[s] = sgen[s]
        /\ (sweepgen' = sweepgen /\ s \in inuse /\ s \in inuse' /\ sgen[s] # sweepgen - 2) =>
              sgen'[s] # sweepgen - 2

C4_NoDoubleClaim == []C4_OneSweeper /\ [][C4_ClaimStep]_vars

\* a scanning thread stands at a span that another thread is sweeping
C4_Witness ==
    \E p, q \in Procs :
        /\ p # q /\ ScanAt(p) # None
        /\ q \in Sweepers(ScanAt(p))
        /\ sgen[ScanAt(p)] = sweepgen - 1

\* ------------------------------------------------------------------- C5
Linked(s) == InList(nonempty, s) \/ InList(empty, s)

\* C5, states: a span returned to the heap is linked in no list; a thread
\* about to hand a span to the heap holds a span in use, with no allocated
\* slot, unlinked, not leased, and is the only thread to hold it.
C5_Freed ==
    /\ \A s \in Spans \ inuse : ~Linked(s)
    /\ \A p \in Procs :
         pc[p] = "fs_heapfree" =>
            /\ sp[p] \in inuse /\ allocCount[sp[p]] = 0
            /\ ~Linked(sp[p]) /\ ~Leased(sp[p])
            /\ \A q \in Procs : q # p => sp[q] # sp[p]

\* C5, steps: freeSpan without preserve unlinks a span with no allocated slot
\* from whichever list holds it and goes on to report it returned, and leaves
\* any other span in the nonempty list; a span leaves the heap's spans in use
\* only by that call, and was in use when it does.
C5_Step ==
    /\ \A p \in Procs :
         (pc[p] = "fs_lock" /\ pc'[p] # "fs_lock") =>
            IF allocCount[sp[p]] = 0
            THEN pc'[p] = "fs_heapfree" /\ ~Linked(sp[p])'
            ELSE pc'[p] = "idle" /\ InList(nonempty', sp[p]) /\ ~InList(empty', sp[p])
    /\ \A s \in inuse :
         s \notin inuse' => \E p \in Procs : pc[p] = "fs_heapfree" /\ sp[p] = s

C5_Reclaimed == []C5_Freed /\ [][C5_Step]_vars

\* freeSpan has unlinked a span that was in the empty list and returns true
C5_Witness ==
    \E p \in Procs :
        /\ pc[p] = "fs_heapfree" /\ ~Linked(sp[p])
        /\ \E u \in inuse : u # sp[p] /\ Linked(u)

\* ------------------------------------------------------------------- C6
\* C6, states: the lock is held only by a thread that scans the lists: not
\* by a thread that sweeps, calls grow or mheap_.freeSpan, or waits for it.
C6_HeldOnlyScanning ==
    \A p \in Procs : lock = p => pc[p] \in {"cs_ne", "cs_e"}

\* C6, steps: the lists change only in a step of the thread that holds the
\* lock, or of a thread that takes the free lock for that change.
C6_Step ==
    <<nonempty, empty>>' # <<nonempty, empty>> =>
        \/ \E p \in Procs : lock = p /\ pc[p] \in {"cs_ne", "cs_e"} /\ pc'[p] # pc[p]
        \/ /\ lock = None
           /\ \E p \in Procs :
                pc[p] \in {"cs_growlock", "fs_lock", "uc_lock"} /\ pc'[p] # pc[p]

C6_LockNotHeld == []C6_HeldOnlyScanning /\ [][C6_Step]_vars

\* one thread sweeps, or is in the heap, while another holds the lock
C6_Witness ==
    \E p, q \in Procs :
        /\ pc[p] \in {"cs_sweep_ne", "cs_sweep_e", "sweep", "cs_grow", "fs_heapfree"}
        /\ lock = q /\ q # p

\* ------------------------------------------------------------------- C7
\* C7, states: a cacheSpan that returns nil has asked the heap once, has
\* adjusted no counter and does not hold the lock.
C7_Failed ==
    \A p \in Procs :
        pc[p] = "cs_ret" /\ sp[p] = None =>
            arenaReq[p] = 1 /\ adj[p] = 0 /\ lock # p

\* C7, steps: the failing request ends the call, and leaves the lists, the
\* counters and the lock as they were.
C7_Step ==
    \A p \in Procs :
        (pc[p] = "cs_grow" /\ sp'[p] = None /\ arenaReq'[p] # arenaReq[p]) =>
            /\ pc'[p] = "cs_ret"
            /\ UNCHANGED <<nonempty, empty, nmalloc, heap_live, lock>>

C7_Exhaustion == []C7_Failed /\ [][C7_Step]_vars

\* nil is returned by a call that had swept a span and gone through retry
C7_Witness ==
    \E p \in Procs :
        pc[p] = "cs_ret" /\ sp[p] = None /\ retried[p] /\ Len(empty) > 0

\* ------------------------------------------------------------------- C8
\* thread p caches a span in which it has allocated nothing since cacheSpan
\* returned it, in the cycle in which it was returned
Untouched(p) == held[p] # None /\ origin[p] # "none"

\* C8 as stated: releasing an untouched span succeeds, takes back from nmalloc
\* what cacheSpan added, and leaves the span with the free slots and in the
\* list (or in no list, for a span grow made) it had before cacheSpan.
C8_RoundTripStep ==
    \A p \in Procs :
        /\ (pc[p] = "idle" /\ Untouched(p) /\ (held'[p] = None \/ pc'[p] = "throw")) =>
              fatal' = "" /\ nmalloc' = nmalloc - nmAdded[p]
        /\ (pc[p] = "uc_lock" /\ origin[p] # "none" /\ pc'[p] = "idle") =>
              /\ NElems - allocCount'[sp[p]] = preFree[p]
              /\ InList(nonempty', sp[p]) <=> origin[p] = "nonempty"
              /\ InList(empty', sp[p]) <=> origin[p] = "empty"

C8_RoundTrip == [][C8_RoundTripStep]_vars

\* C8 amended: releasing an untouched span is fatal exactly when the span has
\* no allocated slot (a span grow made, or one swept to zero); otherwise it
\* takes back from nmalloc what cacheSpan added and leaves the span in the
\* nonempty list only, at its front, with the free slots it had when cacheSpan
\* returned it; these are the free slots and the list it had before cacheSpan
\* if it was taken from the nonempty list and the sweep freed no slot of it.
C8_AmendedStep ==
    \A p \in Procs :
        /\ (pc[p] = "idle" /\ Untouched(p) /\ (held'[p] = None \/ pc'[p] = "throw")) =>
              /\ fatal' # "" <=> allocCount[held[p]] = 0
              /\ fatal' = "" => nmalloc' = nmalloc - nmAdded[p] /\ pc'[p] = "uc_lock"
        /\ (pc[p] = "uc_lock" /\ origin[p] # "none" /\ pc'[p] = "idle") =>
              /\ allocCount'[sp[p]] = allocCount[sp[p]]
              /\ NElems - allocCount'[sp[p]] = nmAdded[p]
              /\ Len(nonempty') > 0 /\ nonempty'[1] = sp[p]
              /\ Count(nonempty', sp[p]) = 1 /\ ~InList(empty', sp[p])
              /\ (origin[p] = "nonempty" /\ preFree[p] = nmAdded[p]) =>
                    NElems - allocCount'[sp[p]] = preFree[p]

C8_Amended == [][C8_AmendedStep]_vars

\* an untouched span taken from the nonempty list is being released
C8_Witness ==
    \E p \in Procs :
        /\ pc[p] = "uc_lock" /\ origin[p] = "nonempty"
        /\ preFree[p] = nmAdded[p]
        /\ Len(nonempty) > 0

\* ------------------------------------------------------------------- C9
\* C9: the step of uncacheSpan under the lock lowers heap_live by
\* (nelems - allocCount) * elemsize if the span is not stale and leaves it
\* if the span is stale (was sg+1, is sg-1 by then); the part of uncacheSpan
\* before the lock, all there is for a span without a free slot, leaves it.
C9_ReleaseStep ==
    \A p \in Procs :
        /\ (pc[p] = "uc_lock" /\ pc'[p] # "uc_lock") =>
              heap_live' = heap_live -
                  (IF sgen[sp[p]] = sweepgen - 1 THEN 0
                   ELSE (NElems - allocCount[sp[p]]) * ElemSize)
        /\ (pc[p] = "idle" /\ held[p] # None /\ held'[p] = None) =>
              /\ heap_live' = heap_live
              /\ pc'[p] = "uc_lock" <=> NElems - allocCount[held[p]] > 0

C9_LiveBytes == [][C9_ReleaseStep]_vars

\* a stale span with a free slot has been moved to the nonempty list by its
\* release, which has yet to sweep it
C9_Witness ==
    \E p \in Procs :
        /\ pc[p] = "sweep" /\ stale[p]
        /\ InList(nonempty, sp[p])
        /\ allocCount[sp[p]] < NElems
        /\ heap_live > 0

\* ------------------------------------------------------------------ C10
\* C10, states: a cacheSpan call has adjusted heap_live once when it returns
\* a span, and not at all before it is at havespan's accounting.
C10_Once ==
    \A p \in Procs :
        /\ pc[p] = "cs_ret" /\ sp[p] # None => adj[p] = 1
        /\ pc[p] \in {"cs_ne", "cs_e", "cs_sweep_ne", "cs_sweep_e", "cs_relock",
                      "cs_grow", "cs_growlock", "havespan"} => adj[p] = 0

\* C10, steps: heap_live changes only when cacheSpan returns a span, by
\* spanBytes minus the bytes of its allocated slots, when uncacheSpan corrects
\* it under the lock, and when a cycle starts.
C10_Step ==
    /\ \A p \in Procs :
         (pc[p] = "havespan" /\ pc'[p] = "cs_ret") =>
            heap_live' = heap_live + spanBytes - allocCount[sp[p]] * ElemSize
    /\ heap_live' # heap_live =>
         \/ \E p \in Procs : pc[p] = "havespan" /\ pc'[p] = "cs_ret"
         \/ \E p \in Procs : pc[p] = "uc_lock" /\ pc'[p] # "uc_lock"
         \/ sweepgen' # sweepgen

C10_LiveOnce == []C10_Once /\ [][C10_Step]_vars

\* a span is returned by a call that had swept a still-full span and retried
C10_Witness ==
    \E p \in Procs :
        pc[p] = "cs_ret" /\ sp[p] # None /\ retried[p] /\ adj[p] = 1

\* ------------------------------------------------------------------ C11
\* the changes of a span's sweepgen that only raise it: the claim, the end
\* of a sweep or of freeSpan, the tag of the thread cache
Forward(v, w) ==
    \/ v = sweepgen - 2 /\ w = sweepgen - 1
    \/ v = sweepgen - 1 /\ w = sweepgen
    \/ v = sweepgen /\ w = sweepgen + 3

\* the changes uncacheSpan makes: the tag is taken off, which lowers sweepgen
Untag(v, w) ==
    \/ v = sweepgen + 3 /\ w = sweepgen
    \/ v = sweepgen + 1 /\ w = sweepgen - 1

\* C11 as stated: no step stores into the sweepgen of a span in use a value
\* smaller than it held, and every change is a claim (sg-2 -> sg-1), the end
\* of a sweep or reclaim (-> sg) or the tag of a lease.
C11_ForwardStep ==
    \A s \in inuse \cap inuse' :
        sgen'[s] # sgen[s] => sgen'[s] > sgen[s] /\ Forward(sgen[s], sgen'[s])

C11_Forward == [][C11_ForwardStep]_vars

\* C11 amended: every change of the sweepgen of a span in use is a claim
\* (sg-2 -> sg-1), the end of a sweep or reclaim (sg-1 -> sg), the tag of a
\* lease (sg -> sg+3), or the store of uncacheSpan, which takes the tag off
\* and lowers the value (sg+3 -> sg, stale sg+1 -> sg-1); the value falls in
\* no step but that of uncacheSpan, and mheap_.sweepgen never falls.
C11_EpochStep ==
    /\ sweepgen' >= sweepgen
    /\ \A s \in inuse \cap inuse' :
         sgen'[s] # sgen[s] =>
            /\ sweepgen' = sweepgen
            /\ Forward(sgen[s], sgen'[s]) \/ Untag(sgen[s], sgen'[s])
            /\ sgen'[s] < sgen[s] =>
                  \E p \in Procs : pc[p] = "idle" /\ held[p] = s /\ held'[p] = None

C11_Epoch == [][C11_EpochStep]_vars

\* a stale span has been released: its sweepgen went from sg+1 down to sg-1
C11_Witness ==
    \E p \in Procs :
        /\ pc[p] \in {"uc_lock", "sweep"} /\ stale[p]
        /\ sgen[sp[p]] = sweepgen - 1
        /\ \E q \in Procs : held[q] # None /\ sgen[held[q]] = sweepgen + 3

\* ------------------------------------------------------------------ C12
RECURSIVE SumFree(_)
\* the slots of the spans in S that nobody has allocated
SumFree(S) ==
    IF S = {} THEN 0
    ELSE LET s == CHOOSE x \in S : TRUE
         IN  (NElems - allocCount[s]) + SumFree(S \ {s})

\* nmalloc without the slots it counts in advance for the leased spans
Settled == nmalloc - SumFree({s \in Spans : Leased(s)})

\* C12 as stated: nmalloc never falls from one state to the next.
C12_MonotoneStep == nmalloc' >= nmalloc

C12_Monotone == [][C12_MonotoneStep]_vars

\* C12 amended: nmalloc rises only when cacheSpan returns a span, by the
\* free slots of that span, and falls only when uncacheSpan is called on a
\* span with free slots, by the number of those slots; what never falls is
\* nmalloc less the free slots of the leased spans, which rises by one with
\* each allocation from a leased span and is never negative.
C12_CountedStep ==
    /\ nmalloc' > nmalloc =>
         \E p \in Procs :
            /\ pc[p] = "havespan" /\ pc'[p] = "cs_ret"
            /\ nmalloc' = nmalloc + (NElems - allocCount[sp[p]])
    /\ nmalloc' < nmalloc =>
         \E p \in Procs :
            /\ pc[p] = "idle" /\ held[p] # None /\ held'[p] = None
            /\ allocCount[held[p]] < NElems
            /\ nmalloc' = nmalloc - (NElems - allocCount[held[p]])
    /\ Settled' >= Settled
    /\ Settled' # Settled =>
         /\ Settled' = Settled + 1
         /\ \E p \in Procs : held[p] # None /\ allocCount'[held[p]] = allocCount[held[p]] + 1

C12_Counted == [](Settled >= 0 /\ nmalloc >= 0) /\ [][C12_CountedStep]_vars

\* a release has lowered nmalloc while another span is still leased
C12_Witness ==
    \E p, q \in Procs :
        /\ pc[p] = "uc_lock" /\ allocCount[sp[p]] < NElems
        /\ held[q] # None /\ allocCount[held[q]] < NElems
        /\ nmalloc = NElems - allocCount[held[q]] + Settled
        /\ Settled > 0

\* ------------------------------------------------------------------ C13
\* the two throws of a caller's error
CallerError == {"uncaching span but s.allocCount == 0", "freeSpan given cached span"}

\* C13: uncacheSpan of a span with allocCount 0 throws, and so does freeSpan
\* of a span a thread cache holds (sweepgen sg+1 or sg+3); the step that
\* throws changes no span's sweepgen, no list, not the lock and no counter,
\* no release of such a span goes through, and nothing runs after a throw.
C13_ThrowStep ==
    /\ fatal = ""
    /\ fatal' = "uncaching span but s.allocCount == 0" =>
         \E p \in Procs :
            pc[p] = "idle" /\ held[p] # None /\ allocCount[held[p]] = 0 /\ pc'[p] = "throw"
    /\ \A p \in Procs : held[p] # None /\ held'[p] = None => allocCount[held[p]] # 0
    /\ fatal' \in CallerError =>
         /\ UNCHANGED <<sweepgen, sgen, nonempty, empty, lock, nmalloc, heap_live>>
         /\ UNCHANGED <<inuse, allocCount, freeindex, allocBits, held>>
         /\ \E p \in Procs : pc[p] = "idle" /\ pc' = [pc EXCEPT ![p] = "throw"]
    /\ fatal' = "freeSpan given cached span" =>
         \E s \in inuse : Leased(s) /\ sgen[s] \in {sweepgen + 1, sweepgen + 3}

C13_FatalFirst == [][C13_ThrowStep]_vars

\* freeSpan has thrown on a stale cached span while the lists hold a span and
\* the counters are not zero
C13_Witness ==
    /\ fatal = "freeSpan given cached span"
    /\ \E q \in Procs : held[q] # None /\ sgen[held[q]] = sweepgen + 1
    /\ Len(nonempty) > 0
    /\ nmalloc > 0 /\ heap_live > 0

\* ------------------------------------------------------------------ C14
\* thread p is in uncacheSpan of a stale span and has not yet swept it
Releasing(p) == stale[p] /\ pc[p] \in {"uc_lock", "sweep"}

\* C14, states: from the store of uncacheSpan to the end of its sweep a stale
\* span carries the claimed value sg-1, the releasing thread does not hold the
\* lock, and no other thread sweeps the span, has it as the span it is about
\* to return, or caches it.
C14_Deferred ==
    \A p \in Procs :
        Releasing(p) =>
            /\ sgen[sp[p]] = sweepgen - 1
            /\ lock # p
            /\ \A q \in Procs : q # p => sp[q] # sp[p] /\ held[q] # sp[p]
            /\ pc[p] = "sweep" => Sweepers(sp[p]) = {p}

\* C14, steps: uncacheSpan of a span with sweepgen sg+1 stores sg-1 before it
\* touches a list; with free slots it then moves the span to the nonempty
\* list under the lock and unlocks; the sweep is the next step of the same
\* thread, and the only one: it ends the release or enters freeSpan.
C14_Step ==
    \A p \in Procs :
        /\ (pc[p] = "idle" /\ held[p] # None /\ held'[p] = None
                /\ sgen[held[p]] = sweepgen + 1) =>
              /\ sgen'[held[p]] = sweepgen - 1
              /\ UNCHANGED <<nonempty, empty, lock>>
              /\ Releasing(p)' /\ sp'[p] = held[p]
              /\ pc'[p] = "uc_lock" <=> allocCount[held[p]] < NElems
              /\ ~InList(nonempty, held[p])
        /\ (Releasing(p) /\ pc[p] = "uc_lock" /\ pc'[p] # "uc_lock") =>
              /\ lock = None /\ lock' = None
              /\ pc'[p] = "sweep" /\ Releasing(p)' /\ sp'[p] = sp[p]
              /\ InList(nonempty', sp[p]) /\ ~InList(empty', sp[p])
              /\ UNCHANGED <<sgen, allocCount, allocBits>>
        /\ (Releasing(p) /\ pc[p] = "sweep" /\ pc'[p] # "sweep") =>
              /\ lock' = lock /\ UNCHANGED <<nonempty, empty>>
              /\ ~Releasing(p)'
              /\ allocBits'[sp[p]] \subseteq Allocated(sp[p])
              /\ \/ pc'[p] = "idle" /\ sgen'[sp[p]] = sweepgen
                 \/ pc'[p] = "fs_lock" /\ sp'[p] = sp[p] /\ sgen'[sp[p]] = sweepgen - 1
        /\ (Releasing(p) /\ pc'[p] = pc[p]) =>
              /\ sgen'[sp[p]] = sgen[sp[p]]
              /\ allocCount'[sp[p]] = allocCount[sp[p]]

C14_StaleRelease == []C14_Deferred /\ [][C14_Step]_vars

\* a stale span sits in the nonempty list, its sweep still to come, and a
\* cacheSpan of another thread is looking at it
C14_Witness ==
    \E p, q \in Procs :
        /\ p # q /\ Releasing(p) /\ pc[p] = "sweep"
        /\ pc[q] = "cs_ne" /\ ScanAt(q) = sp[p]

\* ------------------------------------------------------------------ C15
\* thread p is in cacheSpan with a span it has taken and not yet returned
Acquiring(p) ==
    pc[p] \in {"cs_sweep_ne", "cs_sweep_e", "havespan"} \/ (pc[p] = "cs_ret" /\ sp[p] # None)

\* C15, states: the span a cacheSpan call has taken, swept or not, is in use
\* and linked in the empty list until the call returns it.
C15_NotFreed ==
    \A p \in Procs : Acquiring(p) => sp[p] \in inuse /\ InList(empty, sp[p])

\* C15, steps: s.sweep(true), with its freeSpan(s, true, wasempty), takes no
\* lock and changes no list, no counter and no other span; it does not throw;
\* it leaves the span in use, stamped with mheap_.sweepgen and where it was in
\* the empty list, with no slot allocated that was not, also when no slot is
\* left allocated; and cacheSpan goes on to return the span or to retry.
C15_Step ==
    \A p \in Procs :
        (pc[p] \in {"cs_sweep_ne", "cs_sweep_e"} /\ pc'[p] # pc[p]) =>
            /\ lock # p
            /\ UNCHANGED <<lock, nonempty, empty, inuse, nmalloc, heap_live, sweepgen, held>>
            /\ \A u \in Spans \ {sp[p]} :
                  /\ sgen'[u] = sgen[u] /\ allocCount'[u] = allocCount[u]
                  /\ allocBits'[u] = allocBits[u] /\ freeindex'[u] = freeindex[u]
            /\ fatal' = ""
            /\ sgen[sp[p]] = sweepgen - 1 /\ sgen'[sp[p]] = sweepgen
            /\ allocBits'[sp[p]] \subseteq Allocated(sp[p])
            /\ allocCount'[sp[p]] = Cardinality(allocBits'[sp[p]])
            /\ sp[p] \in inuse' /\ InList(empty', sp[p])
            /\ pc'[p] \in {"havespan", "cs_relock"}
            /\ pc'[p] = "cs_relock" => pc[p] = "cs_sweep_e" /\ allocCount'[sp[p]] = NElems

NeverLeased == fatal = "" /\ Settled = 0 /\ \A r \in Procs : held[r] = None

\* the calls of p and q overlap on such a cache, and both are about to return
BothReturn(p, q) == p # q /\ NeverLeased /\ pc[p] = "cs_ret" /\ pc[q] = "cs_ret"

\* C16 as stated: of two cacheSpan calls that overlap on an empty cache one
\* asks the heap for a span and the other does not, and they do not return
\* the same span.
C16_OneGrow ==
    \A p, q \in Procs :
        BothReturn(p, q) =>
            /\ arenaReq[p] + arenaReq[q] = 1
            /\ sp[p] # None => sp[p] # sp[q]

\* C16 amended: on a cache that has leased no span the lists hold nothing but
\* the spans that calls still running got from grow, and no call takes a span
\* from them; each of two overlapping calls asks the heap once, so there are
\* two requests, and returns the span of its own request or nil; the two
\* never return the same span.
C16_EachGrows ==
    /\ NeverLeased =>
          \A s \in Spans :
              Linked(s) <=>
                  \E r \in Procs :
                      sp[r] = s /\ pc[r] \in {"havespan", "cs_ret"} /\ origin[r] = "grow"
    /\ \A p, q \in Procs :
          BothReturn(p, q) =>
              /\ arenaReq[p] = 1 /\ arenaReq[q] = 1
              /\ ~retried[p] /\ ~retried[q]
              /\ sp[p] # None => origin[p] = "grow" /\ sp[p] # sp[q] /\ allocCount[sp[p]] = 0

\* both calls return a span, each the one its own grow got from the heap
C16_Witness ==
    \E p, q \in Procs :
        /\ BothReturn(p, q)
        /\ sp[p] # None /\ sp[q] # None /\ sp[p] # sp[q]
        /\ arenaReq[p] = 1 /\ arenaReq[q] = 1
        /\ empty = <<sp[p], sp[q]>>

\* ------------------------------------------------------------------ C17
\* span s is neither unswept nor claimed
PastSweep(s) == sgen[s] # sweepgen - 2 /\ sgen[s] # sweepgen - 1

\* C17: in the empty list no unswept span (sweepgen sg-2) comes after a span
\* that is neither unswept nor claimed, cached spans included; so when the
\* scan of cacheSpan breaks at such a span, no span behind it needs a sweep.
C17_SweptAtEnd ==
    \A i, j \in 1 .. Len(empty) :
        i < j /\ PastSweep(empty[i]) => sgen[empty[j]] # sweepgen - 2

\* ------------------------------------------------------------------ C18
\* C18, states: until freeSpan has the lock the span it was called for is
\* not stamped; and a span in the empty list that is stamped swept (sg) and
\* has a free slot is never one freeSpan left there: it is the span of a
\* cacheSpan about to return it, or of an uncacheSpan waiting for the lock.
C18_Unpublished ==
    /\ \A p \in Procs : pc[p] = "fs_lock" => sgen[sp[p]] = sweepgen - 1
    /\ \A s \in inuse :
         (InList(empty, s) /\ sgen[s] = sweepgen /\ allocCount[s] < NElems) =>
             \E p \in Procs : sp[p] = s /\ (Acquiring(p) \/ pc[p] = "uc_lock")

\* C18, steps: freeSpan without preserve stamps the span in the step in which
\* it has the lock, with the move from the empty to the nonempty list made if
\* wasempty; a span with an allocated slot is then in the nonempty list only,
\* in use, and the call returns false; the lock is free again after the step.
C18_Step ==
    \A p \in Procs :
        (pc[p] = "fs_lock" /\ pc'[p] # "fs_lock") =>
            /\ lock = None /\ lock' = None
            /\ sgen[sp[p]] # sweepgen /\ sgen'[sp[p]] = sweepgen
            /\ ~InList(empty', sp[p])
            /\ wasempty[p] <=> InList(empty, sp[p])
            /\ allocCount[sp[p]] # 0 =>
                  /\ pc'[p] = "idle" /\ sp[p] \in inuse'
                  /\ Count(nonempty', sp[p]) = 1
                  /\ wasempty[p] => nonempty'[1] = sp[p]
                  /\ ~wasempty[p] => nonempty' = nonempty

C18_Publication == []C18_Unpublished /\ [][C18_Step]_vars

\* freeSpan is about to move a span with a freed slot out of the empty list,
\* where a cacheSpan of another thread is looking at it
C18_Witness ==
    \E p, q \in Procs :
        /\ pc[p] = "fs_lock" /\ wasempty[p]
        /\ allocCount[sp[p]] > 0 /\ allocCount[sp[p]] < NElems
        /\ pc[q] = "cs_e" /\ ScanAt(q) = sp[p]

\* ------------------------------------------------------------------ C19
\* C19: every span linked in the nonempty list is in use and has a free slot,
\* by its allocCount and by its freeindex and allocBits alike, whether swept,
\* unswept or being swept; so a span cacheSpan has taken from the nonempty
\* list passes the check at havespan, and "span has no free objects" is never
\* thrown.
C19_NonemptyFree ==
    /\ \A i \in 1 .. Len(nonempty) :
         /\ nonempty[i] \in inuse
         /\ allocCount[nonempty[i]] < NElems
         /\ nextFreeIndex(nonempty[i]) # NElems
    /\ \A p \in Procs :
         (pc[p] \in {"cs_sweep_ne", "havespan"} /\ origin[p] = "nonempty") =>
             /\ allocCount[sp[p]] < NElems
             /\ pc[p] = "havespan" => ~NoFreeObjects(sp[p])
    /\ fatal # "span has no free objects"

\* a span is taken from the nonempty list while another span is in that list
\* with its sweep, left to the thread that released it, still to come
C19_Witness ==
    \E p, q \in Procs :
        /\ pc[p] = "havespan" /\ origin[p] = "nonempty"
        /\ pc[q] = "sweep" /\ InList(nonempty, sp[q])
        /\ sgen[sp[q]] = sweepgen - 1

\* ------------------------------------------------------------------ C20
\* thread p is inside cacheSpan
InCall(p) ==
    pc[p] \in {"cs_ne", "cs_e", "cs_sweep_ne", "cs_sweep_e", "cs_relock", "cs_grow",
               "cs_growlock", "havespan"}

\* the spans in use that nobody has claimed in this cycle
Unswept == {s \in inuse : sgen[s] = sweepgen - 2}

\* C20, states: a thread that is about to lock does not hold the lock, and
\* the thread that holds it is scanning.
C20_NoRelock ==
    \A p \in Procs :
        /\ pc[p] \in {"idle", "cs_relock", "cs_growlock", "uc_lock", "fs_lock"} => lock # p
        /\ lock = p => pc[p] \in {"cs_ne", "cs_e"}

\* C20, steps: mheap_.sweepgen does not change while a call is running; a
\* call comes to the retry only from the sweep of a span it has claimed in
\* the empty list, and the claim takes that span out of the unswept spans,
\* which get no new member unless a cycle starts.
C20_Step ==
    /\ (\E p \in Procs : InCall(p)) => sweepgen' = sweepgen
    /\ sweepgen' = sweepgen => Unswept' \subseteq Unswept
    /\ \A p \in Procs :
         /\ (pc[p] # "cs_relock" /\ pc'[p] = "cs_relock") =>
               pc[p] = "cs_sweep_e" /\ sp[p] \notin Unswept'
         /\ (pc[p] # "cs_sweep_e" /\ pc'[p] = "cs_sweep_e") =>
               /\ pc[p] = "cs_e" /\ lock = p
               /\ sp'[p] \in Unswept /\ Unswept' = Unswept \ {sp'[p]}

\* C20: every cacheSpan call comes to its return, with a span or with nil,
\* unless a throw stops the program first.
C20_Terminates ==
    /\ []C20_NoRelock
    /\ [][C20_Step]_vars
    /\ \A p \in Procs : [](InCall(p) => <>(pc[p] = "cs_ret" \/ fatal # ""))

\* a call that has swept a span and found it full waits for the lock, which
\* another thread holds, with another unswept span left in the empty list
C20_Witness ==
    \E p, q \in Procs :
        /\ pc[p] = "cs_relock" /\ lock = q /\ q # p
        /\ \E i \in 1 .. Len(empty) : empty[i] \in Unswept

====
